---- MODULE Spec2Model ----
(***************************************************************************)
(* Book asset lifecycle of the e-book backend: createBook, updateBook,     *)
(* getSingleBook and deleteBook of src/src/book/bookController.ts, run as  *)
(* concurrent request handlers against the metadata repository            *)
(* (bookModel), the remote asset store (cloudinary.uploader) and the local *)
(* upload directory (multer + fs.promises.unlink).                         *)
(*                                                                         *)
(* A handler is a linear sequence of awaits.  One action of the model is   *)
(* one await: the awaited call takes effect (or throws) and the handler    *)
(* runs on to its next await or to its response.                           *)
(*                                                                         *)
(* A request's inputs (caller, book id, body fields) are fixed when it     *)
(* arrives, and nothing sees them before the handler uses them: the model  *)
(* draws each input in the action that first uses it.  Which files were    *)
(* sent is drawn on arrival, when multer stages them.  An input the        *)
(* handler never came to use stays unset in the request's record.          *)
(*                                                                         *)
(* Strings are sequences of tokens.  "/" and "." are tokens of their own;  *)
(* every other token is a piece of text holding neither.                   *)
(***************************************************************************)
EXTENDS Integers, Sequences, FiniteSets, TLC

\* ------------------------------------------------------------------ bounds

\* Number of request handlers that may run (concurrently) in one behaviour.
NumReq == 2

\* Longest string the identifier derivation is applied to on its own.
MaxUrlLen == 5

\* ------------------------------------------------------- strings (JS values)

\* The value `undefined`, as Array.prototype.at yields it out of range.
Undefined == <<"undefined">>

\* String(undefined), which `+` concatenates.
UndefinedText == <<"u", "n", "d", "e", "f", "i", "n", "e", "d">>

\* x + "...": a string operand is itself, undefined becomes "undefined".
Str(x) == IF x = Undefined THEN UndefinedText ELSE x

\* String.prototype.split(sep): always at least one piece.
RECURSIVE Split(_, _)
Split(s, sep) ==
    IF s = <<>> THEN << <<>> >>
    ELSE LET rest == Split(Tail(s), sep)
         IN  IF Head(s) = sep
             THEN << <<>> >> \o rest
             ELSE << <<Head(s)>> \o Head(rest) >> \o Tail(rest)

\* Array.prototype.at(-k), k >= 1.
AtBack(arr, k) == IF Len(arr) >= k THEN arr[Len(arr) - k + 1] ELSE Undefined

\* coverFileSplits.at(-2) + "/" + coverFileSplits.at(-1)?.split(".").at(-2)
CoverImagePublicId(coverImage) ==
    LET coverFileSplits == Split(coverImage, "/")
    IN  Str(AtBack(coverFileSplits, 2)) \o <<"/">>
            \o Str(AtBack(Split(AtBack(coverFileSplits, 1), "."), 2))

\* The book file's id derived the way the cover's is, extension cut off.
BookFilePublicIdNoExtension(file) == CoverImagePublicId(file)

\* bookFileSplits.at(-2) + "/" + bookFileSplits.at(-1)
BookFilePublicId(file) ==
    LET bookFileSplits == Split(file, "/")
    IN  Str(AtBack(bookFileSplits, 2)) \o <<"/">> \o Str(AtBack(bookFileSplits, 1))

\* if (coverImagePublicId) / if (bookFilePublicId): a string is truthy unless empty.
Truthy(s) == s # <<>>

\* ------------------------------------------------------- remote asset store

\* Where the store serves its blobs from.
UrlBase == <<"https:", "/", "/", "res", "/">>

\* The blob cloudinary.uploader.upload creates for an image: its public id has
\* no extension, its secure_url ends in the requested format.
ImageBlob(n, format) ==
    LET pid == <<"book-covers", "/", ToString(n)>>
    IN  [kind |-> "image", pid |-> pid, url |-> UrlBase \o pid \o <<".", format>>]

\* The blob of a raw upload: the format is part of the public id.
RawBlob(n) ==
    LET pid == <<"book-pdfs", "/", ToString(n), ".", "pdf">>
    IN  [kind |-> "raw", pid |-> pid, url |-> UrlBase \o pid]

\* cloudinary.uploader.destroy(publicId, {resource_type}): removes the blob of
\* that kind and public id; when there is none the call still returns.
Destroy(store, publicId, kind) ==
    {b \in store : ~(b.kind = kind /\ b.pid = publicId)}

\* The kind destroy is called with when no resource_type is passed.
DefaultKind == "image"

\* A stored URL is live when the store holds its blob.
Live(store, u) == \E b \in store : b.url = u

\* ------------------------------------------------------------------- values

Users == {"u1", "u2"}

FieldSets ==
    { [title |-> "t1", genre |-> "g1", description |-> "d1"],
      [title |-> "t2", genre |-> "g2", description |-> "d2"] }

NoFields == [title |-> "", genre |-> "", description |-> ""]

\* null, in the shape of a Book document.
NoBook ==
    [id |-> 0, title |-> "", genre |-> "", description |-> "", author |-> "",
     coverImage |-> <<>>, file |-> <<>>]

Reqs == 1 .. NumReq

IdleReq ==
    [kind |-> "idle", pc |-> "idle", user |-> "", bookId |-> 0,
     fields |-> NoFields, hasCover |-> FALSE, hasFile |-> FALSE,
     book |-> NoBook, coverImagePublicId |-> <<>>, bookFilePublicId |-> <<>>,
     completeCoverImage |-> <<>>, completeFileName |-> <<>>,
     status |-> 0, body |-> NoBook, calls |-> <<>>, fault |-> FALSE,
     failedAt |-> "", sent |-> 0, nexted |-> 0]

VARIABLES
    books,       \* bookModel: _id -> Book document
    blobs,       \* the blobs the remote store holds
    tempFiles,   \* public/data/uploads: <<request, field>> of each staged file
    req,         \* each handler invocation: inputs, locals, position, response
    lastWriter,  \* _id -> the request whose write to the document was the last
    url,         \* the string given to the identifier derivation on its own
    ids          \* what the derivation made of it: <<image id, raw id>>

vars == <<books, blobs, tempFiles, req, lastWriter, url, ids>>

\* ----------------------------------------------------------------- helpers

\* res.status(s).json(body) or next(createHttpError(s, ...)): the handler ends.
Respond(r, s, b) ==
    [req EXCEPT ![r].pc = "done", ![r].status = s, ![r].body = b,
                ![r].sent = IF s \in {200, 201} THEN @ + 1 ELSE @,
                ![r].nexted = IF s \in {200, 201} THEN @ ELSE @ + 1]

\* catch (err) { return next(createHttpError(500, ...)) } after the awaited
\* call threw; failedAt keeps which call that was.
Caught(r) ==
    [req EXCEPT ![r].pc = "done", ![r].status = 500, ![r].fault = TRUE,
                ![r].failedAt = req[r].pc, ![r].nexted = @ + 1]

Call(op, kind, arg) == [op |-> op, kind |-> kind, arg |-> arg]

\* The ownership check left out.
NotOwnerUnchecked(book, userId) == FALSE

\* book.author.toString() !== _req.userId
NotOwner(book, userId) == book.author # userId

\* An update that leaves the genre out of what it writes.
UpdateDocWithoutGenre(old, fields, completeCoverImage, completeFileName) ==
    [old EXCEPT !.title = fields.title,
                !.description = fields.description,
                !.coverImage = completeCoverImage,
                !.file = completeFileName]

\* An update that replaces the document by the fields it is given, so that the
\* author is not carried over.
UpdateDocReplacing(old, fields, completeCoverImage, completeFileName) ==
    [old EXCEPT !.title = fields.title, !.genre = fields.genre,
                !.description = fields.description,
                !.author = "",
                !.coverImage = completeCoverImage,
                !.file = completeFileName]

\* The fields updateBook passes to findOneAndUpdate; author is not among them.
UpdateDoc(old, fields, completeCoverImage, completeFileName) ==
    [old EXCEPT !.title = fields.title, !.genre = fields.genre,
                !.description = fields.description,
                !.coverImage = completeCoverImage,
                !.file = completeFileName]

\* The document bookModel.create stores.
NewDoc(id, fields, userId, coverUrl, fileUrl) ==
    [id |-> id, title |-> fields.title, genre |-> fields.genre,
     description |-> fields.description, author |-> userId,
     coverImage |-> coverUrl, file |-> fileUrl]

\* The files multer has written to the upload directory for a request.
Staged(r, hasCover, hasFile) ==
    (IF hasCover THEN {<<r, "coverImage">>} ELSE {})
        \cup (IF hasFile THEN {<<r, "file">>} ELSE {})

\* ------------------------------------------------------------------- Init

InitCover == ImageBlob(0, "png")
InitFile == RawBlob(0)

InitBook ==
    [id |-> 1, title |-> "t0", genre |-> "g0", description |-> "d0",
     author |-> "u1", coverImage |-> InitCover.url, file |-> InitFile.url]

\* One book has been created by u1; no request is in flight.
Init ==
    /\ books = (1 :> InitBook)
    /\ blobs = {InitCover, InitFile}
    /\ tempFiles = {}
    /\ req = [r \in Reqs |-> IdleReq]
    /\ lastWriter = (1 :> 0)
    /\ url = <<>>
    /\ ids = <<>>

\* Requests take the slots in order.
CanStart(r) ==
    /\ req[r].pc = "idle"
    /\ \A q \in Reqs : q < r => req[q].pc # "idle"

\* The _id bookModel.create gives the document of request r: unique, and never
\* that of an earlier document.
NewId(r) == InitBook.id + r

\* The name the remote store gives what request r uploads: unique within its
\* folder (a request uploads one cover and one book file at most).
NewName(r) == r

\* An _id no document ever has.
MissingId == 0

\* Ids a request may name: the first book's, those of the books that the
\* createBook requests under way create (if they get that far), and the
\* missing one.
BookIds ==
    {MissingId, InitBook.id} \cup {NewId(q) : q \in {q \in Reqs : req[q].kind = "create"}}

\* ------------------------------------------------------------- createBook

\* POST /api/books: multer stages the files, then createBook runs to its
\* first await.
StartCreate(r) ==
    /\ CanStart(r)
    /\ \E hasCover \in BOOLEAN, hasFile \in BOOLEAN :
        LET started ==
                [req EXCEPT ![r].kind = "create", ![r].hasCover = hasCover,
                            ![r].hasFile = hasFile, ![r].pc = "uploadCover"]
        IN  /\ tempFiles' = tempFiles \cup Staged(r, hasCover, hasFile)
            /\ req' = IF ~hasCover
                      THEN [started EXCEPT ![r].pc = "done", ![r].status = 400,
                                           ![r].nexted = @ + 1]
                      ELSE started
    /\ UNCHANGED <<books, blobs, lastWriter, url, ids>>

\* await cloudinary.uploader.upload(filePath, {folder: "book-covers", ...}),
\* then the check that the book file was sent.
CreateUploadCover(r) ==
    /\ req[r].kind = "create" /\ req[r].pc = "uploadCover"
    /\ \E fail \in BOOLEAN :
        IF fail
        THEN /\ req' = Caught(r)
             /\ UNCHANGED blobs
        ELSE LET b == ImageBlob(NewName(r), "png")
                 uploaded ==
                     [req EXCEPT ![r].completeCoverImage = b.url,
                                 ![r].calls = @ \o <<Call("upload", "image", "coverImage")>>,
                                 ![r].pc = "uploadFile"]
             IN  /\ blobs' = blobs \cup {b}
                 /\ req' = IF ~req[r].hasFile
                           THEN [uploaded EXCEPT ![r].pc = "done", ![r].status = 400,
                                                 ![r].nexted = @ + 1]
                           ELSE uploaded
    /\ UNCHANGED <<books, tempFiles, lastWriter, url, ids>>

\* The book file upload with its failure swallowed: the handler goes on to
\* bookModel.create without a file URL.
CreateUploadFileUnchecked(r) ==
    /\ req[r].kind = "create" /\ req[r].pc = "uploadFile"
    /\ \E fail \in BOOLEAN :
        IF fail
        THEN /\ req' = [req EXCEPT ![r].pc = "dbCreate"]
             /\ UNCHANGED blobs
        ELSE LET b == RawBlob(NewName(r))
             IN  /\ blobs' = blobs \cup {b}
                 /\ req' = [req EXCEPT ![r].completeFileName = b.url,
                                       ![r].calls = @ \o <<Call("upload", "raw", "file")>>,
                                       ![r].pc = "dbCreate"]
    /\ UNCHANGED <<books, tempFiles, lastWriter, url, ids>>

\* await cloudinary.uploader.upload(bookFilePath, {resource_type: "raw", ...})
CreateUploadFile(r) ==
    /\ req[r].kind = "create" /\ req[r].pc = "uploadFile"
    /\ \E fail \in BOOLEAN :
        IF fail
        THEN /\ req' = Caught(r)
             /\ UNCHANGED blobs
        ELSE LET b == RawBlob(NewName(r))
             IN  /\ blobs' = blobs \cup {b}
                 /\ req' = [req EXCEPT ![r].completeFileName = b.url,
                                       ![r].calls = @ \o <<Call("upload", "raw", "file")>>,
                                       ![r].pc = "dbCreate"]
    /\ UNCHANGED <<books, tempFiles, lastWriter, url, ids>>

\* await bookModel.create({...})
CreateDbCreate(r) ==
    /\ req[r].kind = "create" /\ req[r].pc = "dbCreate"
    /\ \E fail \in BOOLEAN, userId \in Users, fields \in FieldSets :
        IF fail
        THEN /\ req' = Caught(r)
             /\ UNCHANGED <<books, lastWriter>>
        ELSE LET newBook == NewDoc(NewId(r), fields, userId,
                                   req[r].completeCoverImage, req[r].completeFileName)
             IN  /\ books' = (NewId(r) :> newBook) @@ books
                 /\ lastWriter' = (NewId(r) :> r) @@ lastWriter
                 /\ req' = [req EXCEPT ![r].user = userId, ![r].fields = fields,
                                       ![r].book = newBook, ![r].pc = "unlinkCover"]
    /\ UNCHANGED <<blobs, tempFiles, url, ids>>

\* await fs.promises.unlink(filePath)
CreateUnlinkCover(r) ==
    /\ req[r].kind = "create" /\ req[r].pc = "unlinkCover"
    /\ \E fail \in BOOLEAN :
        IF fail
        THEN /\ req' = Caught(r)
             /\ UNCHANGED tempFiles
        ELSE /\ tempFiles' = tempFiles \ {<<r, "coverImage">>}
             /\ req' = [req EXCEPT ![r].pc = "unlinkFile"]
    /\ UNCHANGED <<books, blobs, lastWriter, url, ids>>

\* await fs.promises.unlink(bookFilePath); res.status(201).json({id: newBook._id})
CreateUnlinkFile(r) ==
    /\ req[r].kind = "create" /\ req[r].pc = "unlinkFile"
    /\ \E fail \in BOOLEAN :
        IF fail
        THEN /\ req' = Caught(r)
             /\ UNCHANGED tempFiles
        ELSE /\ tempFiles' = tempFiles \ {<<r, "file">>}
             /\ req' = Respond(r, 201, [NoBook EXCEPT !.id = req[r].book.id])
    /\ UNCHANGED <<books, blobs, lastWriter, url, ids>>

\* ------------------------------------------------------------- updateBook

\* PATCH /api/books/:bookId: multer stages the files, then updateBook runs to
\* its first await, bookModel.findOne.
StartUpdate(r) ==
    /\ CanStart(r)
    /\ \E hasCover \in BOOLEAN, hasFile \in BOOLEAN :
        /\ tempFiles' = tempFiles \cup Staged(r, hasCover, hasFile)
        /\ req' = [req EXCEPT ![r].kind = "update",
                              ![r].hasCover = hasCover, ![r].hasFile = hasFile,
                              ![r].pc = "findOne"]
    /\ UNCHANGED <<books, blobs, lastWriter, url, ids>>

\* The book file replaced whether or not one was sent.
AfterCoverPcUnguarded(hasFile, bookFilePublicId) ==
    IF Truthy(bookFilePublicId) THEN "destroyFile" ELSE "uploadFile"

\* Where updateBook awaits next once the cover image is dealt with:
\* if (files && files.file) { if (bookFilePublicId) destroy ...; upload ... }
AfterCoverPc(hasFile, bookFilePublicId) ==
    IF hasFile
    THEN IF Truthy(bookFilePublicId) THEN "destroyFile" ELSE "uploadFile"
    ELSE "persist"

\* The new cover uploaded without the old one destroyed first.
AfterFindPcUploadFirst(hasCover, hasFile, coverImagePublicId, bookFilePublicId) ==
    IF hasCover THEN "uploadCover" ELSE AfterCoverPc(hasFile, bookFilePublicId)

\* Where updateBook awaits first once the book is found and the caller is its
\* author: if (files && files.coverImage) { if (coverImagePublicId) destroy ... }
AfterFindPc(hasCover, hasFile, coverImagePublicId, bookFilePublicId) ==
    IF hasCover
    THEN IF Truthy(coverImagePublicId) THEN "destroyCover" ELSE "uploadCover"
    ELSE AfterCoverPc(hasFile, bookFilePublicId)

\* updateBook without the test for a missing record: reading book.author of
\* null throws, which the catch turns into 500.
UpdateFindOneNoNullCheck(r) ==
    /\ req[r].kind = "update" /\ req[r].pc = "findOne"
    /\ \E fail \in BOOLEAN, userId \in Users, bookId \in BookIds :
        req' = [ IF fail THEN Caught(r)
                 ELSE IF bookId \notin DOMAIN books THEN Respond(r, 500, NoBook)
                 ELSE LET book == books[bookId]
                          cid == CoverImagePublicId(book.coverImage)
                          fid == BookFilePublicId(book.file)
                      IN  IF NotOwner(book, userId)
                          THEN [Respond(r, 403, NoBook) EXCEPT ![r].book = book,
                                                               ![r].user = userId]
                          ELSE [req EXCEPT ![r].book = book, ![r].user = userId,
                                           ![r].coverImagePublicId = cid,
                                           ![r].bookFilePublicId = fid,
                                           ![r].completeCoverImage = book.coverImage,
                                           ![r].completeFileName = book.file,
                                           ![r].pc = AfterFindPc(req[r].hasCover, req[r].hasFile, cid, fid)]
               EXCEPT ![r].bookId = bookId ]
    /\ UNCHANGED <<books, blobs, tempFiles, lastWriter, url, ids>>

\* await bookModel.findOne({_id: bookId}), the 404 and 403 checks, the public
\* ids, completeCoverImage and completeFileName.
UpdateFindOne(r) ==
    /\ req[r].kind = "update" /\ req[r].pc = "findOne"
    /\ \E fail \in BOOLEAN, userId \in Users, bookId \in BookIds :
        req' = [ IF fail THEN Caught(r)
                 ELSE IF bookId \notin DOMAIN books THEN Respond(r, 404, NoBook)
                 ELSE LET book == books[bookId]
                          cid == CoverImagePublicId(book.coverImage)
                          fid == BookFilePublicId(book.file)
                      IN  IF NotOwner(book, userId)
                          THEN [Respond(r, 403, NoBook) EXCEPT ![r].book = book,
                                                               ![r].user = userId]
                          ELSE [req EXCEPT ![r].book = book, ![r].user = userId,
                                           ![r].coverImagePublicId = cid,
                                           ![r].bookFilePublicId = fid,
                                           ![r].completeCoverImage = book.coverImage,
                                           ![r].completeFileName = book.file,
                                           ![r].pc = AfterFindPc(req[r].hasCover, req[r].hasFile, cid, fid)]
               EXCEPT ![r].bookId = bookId ]
    /\ UNCHANGED <<books, blobs, tempFiles, lastWriter, url, ids>>

\* await cloudinary.uploader.destroy(coverImagePublicId)
UpdateDestroyCover(r) ==
    /\ req[r].kind = "update" /\ req[r].pc = "destroyCover"
    /\ \E fail \in BOOLEAN :
        IF fail
        THEN /\ req' = Caught(r)
             /\ UNCHANGED blobs
        ELSE /\ blobs' = Destroy(blobs, req[r].coverImagePublicId, DefaultKind)
             /\ req' = [req EXCEPT
                    ![r].calls = @ \o <<Call("destroy", DefaultKind, req[r].coverImagePublicId)>>,
                    ![r].pc = "uploadCover"]
    /\ UNCHANGED <<books, tempFiles, lastWriter, url, ids>>

\* await cloudinary.uploader.upload(filePath, {folder: "book-covers", ...});
\* completeCoverImage = uploadResult.secure_url
UpdateUploadCover(r) ==
    /\ req[r].kind = "update" /\ req[r].pc = "uploadCover"
    /\ \E fail \in BOOLEAN :
        IF fail
        THEN /\ req' = Caught(r)
             /\ UNCHANGED blobs
        ELSE LET b == ImageBlob(NewName(r), "png")
             IN  /\ blobs' = blobs \cup {b}
                 /\ req' = [req EXCEPT ![r].completeCoverImage = b.url,
                                       ![r].calls = @ \o <<Call("upload", "image", "coverImage")>>,
                                       ![r].pc = "unlinkCover"]
    /\ UNCHANGED <<books, tempFiles, lastWriter, url, ids>>

\* await fs.promises.unlink(filePath), then on to the book file
UpdateUnlinkCover(r) ==
    /\ req[r].kind = "update" /\ req[r].pc = "unlinkCover"
    /\ \E fail \in BOOLEAN :
        IF fail
        THEN /\ req' = Caught(r)
             /\ UNCHANGED tempFiles
        ELSE /\ tempFiles' = tempFiles \ {<<r, "coverImage">>}
             /\ req' = [req EXCEPT ![r].pc =
                            AfterCoverPc(req[r].hasFile, req[r].bookFilePublicId)]
    /\ UNCHANGED <<books, blobs, lastWriter, url, ids>>

\* await cloudinary.uploader.destroy(bookFilePublicId, {resource_type: "raw"})
UpdateDestroyFile(r) ==
    /\ req[r].kind = "update" /\ req[r].pc = "destroyFile"
    /\ \E fail \in BOOLEAN :
        IF fail
        THEN /\ req' = Caught(r)
             /\ UNCHANGED blobs
        ELSE /\ blobs' = Destroy(blobs, req[r].bookFilePublicId, "raw")
             /\ req' = [req EXCEPT
                    ![r].calls = @ \o <<Call("destroy", "raw", req[r].bookFilePublicId)>>,
                    ![r].pc = "uploadFile"]
    /\ UNCHANGED <<books, tempFiles, lastWriter, url, ids>>

\* await cloudinary.uploader.upload(bookFilePath, {resource_type: "raw", ...});
\* completeFileName = uploadResultPdf.secure_url
UpdateUploadFile(r) ==
    /\ req[r].kind = "update" /\ req[r].pc = "uploadFile"
    /\ \E fail \in BOOLEAN :
        IF fail
        THEN /\ req' = Caught(r)
             /\ UNCHANGED blobs
        ELSE LET b == RawBlob(NewName(r))
             IN  /\ blobs' = blobs \cup {b}
                 /\ req' = [req EXCEPT ![r].completeFileName = b.url,
                                       ![r].calls = @ \o <<Call("upload", "raw", "file")>>,
                                       ![r].pc = "unlinkFile"]
    /\ UNCHANGED <<books, tempFiles, lastWriter, url, ids>>

\* await fs.promises.unlink(bookFilePath)
UpdateUnlinkFile(r) ==
    /\ req[r].kind = "update" /\ req[r].pc = "unlinkFile"
    /\ \E fail \in BOOLEAN :
        IF fail
        THEN /\ req' = Caught(r)
             /\ UNCHANGED tempFiles
        ELSE /\ tempFiles' = tempFiles \ {<<r, "file">>}
             /\ req' = [req EXCEPT ![r].pc = "persist"]
    /\ UNCHANGED <<books, blobs, lastWriter, url, ids>>

\* await bookModel.findOneAndUpdate({_id: bookId}, {...}, {new: true});
\* res.json(updatedBook).  With no such document nothing is written and
\* updatedBook is null.
UpdatePersist(r) ==
    /\ req[r].kind = "update" /\ req[r].pc = "persist"
    /\ \E fail \in BOOLEAN, fields \in FieldSets :
        IF fail
        THEN /\ req' = Caught(r)
             /\ UNCHANGED <<books, lastWriter>>
        ELSE IF req[r].bookId \notin DOMAIN books
        THEN /\ req' = [Respond(r, 200, NoBook) EXCEPT ![r].fields = fields]
             /\ UNCHANGED <<books, lastWriter>>
        ELSE LET updatedBook == UpdateDoc(books[req[r].bookId], fields,
                                          req[r].completeCoverImage,
                                          req[r].completeFileName)
             IN  /\ books' = [books EXCEPT ![req[r].bookId] = updatedBook]
                 /\ lastWriter' = [lastWriter EXCEPT ![req[r].bookId] = r]
                 /\ req' = [Respond(r, 200, updatedBook) EXCEPT ![r].fields = fields]
    /\ UNCHANGED <<blobs, tempFiles, url, ids>>

\* ---------------------------------------------------------- getSingleBook

\* GET /api/books/:bookId, up to its await.
StartGet(r) ==
    /\ CanStart(r)
    /\ req' = [req EXCEPT ![r].kind = "get", ![r].pc = "findOne"]
    /\ UNCHANGED <<books, blobs, tempFiles, lastWriter, url, ids>>

\* await bookModel.findOne({_id: bookId}); 404 or res.json(book)
GetFindOne(r) ==
    /\ req[r].kind = "get" /\ req[r].pc = "findOne"
    /\ \E fail \in BOOLEAN, bookId \in BookIds :
        req' = [ IF fail THEN Caught(r)
                 ELSE IF bookId \notin DOMAIN books THEN Respond(r, 404, NoBook)
                 ELSE Respond(r, 200, books[bookId])
               EXCEPT ![r].bookId = bookId ]
    /\ UNCHANGED <<books, blobs, tempFiles, lastWriter, url, ids>>

\* ------------------------------------------------------------- deleteBook

\* DELETE /api/books/:bookId, up to its first await.
StartDelete(r) ==
    /\ CanStart(r)
    /\ req' = [req EXCEPT ![r].kind = "delete", ![r].pc = "findOne"]
    /\ UNCHANGED <<books, blobs, tempFiles, lastWriter, url, ids>>

\* await bookModel.findOne({_id: bookId}), the 404 and 403 checks, the public ids
DeleteFindOne(r) ==
    /\ req[r].kind = "delete" /\ req[r].pc = "findOne"
    /\ \E fail \in BOOLEAN, userId \in Users, bookId \in BookIds :
        req' = [ IF fail THEN Caught(r)
                 ELSE IF bookId \notin DOMAIN books THEN Respond(r, 404, NoBook)
                 ELSE LET book == books[bookId]
                      IN  IF NotOwner(book, userId)
                          THEN [Respond(r, 403, NoBook) EXCEPT ![r].book = book,
                                                               ![r].user = userId]
                          ELSE [req EXCEPT ![r].book = book, ![r].user = userId,
                                    ![r].coverImagePublicId = CoverImagePublicId(book.coverImage),
                                    ![r].bookFilePublicId = BookFilePublicId(book.file),
                                    ![r].pc = "destroyCover"]
               EXCEPT ![r].bookId = bookId ]
    /\ UNCHANGED <<books, blobs, tempFiles, lastWriter, url, ids>>

\* The catch of the destroy calls without its return: the error is passed to
\* next and the handler goes on to bookModel.deleteOne.
DeleteDestroyCoverNoReturn(r) ==
    /\ req[r].kind = "delete" /\ req[r].pc = "destroyCover"
    /\ \E fail \in BOOLEAN :
        IF fail
        THEN /\ req' = [Caught(r) EXCEPT ![r].pc = "deleteOne"]
             /\ UNCHANGED blobs
        ELSE /\ blobs' = Destroy(blobs, req[r].coverImagePublicId, DefaultKind)
             /\ req' = [req EXCEPT
                    ![r].calls = @ \o <<Call("destroy", DefaultKind, req[r].coverImagePublicId)>>,
                    ![r].pc = "destroyFile"]
    /\ UNCHANGED <<books, tempFiles, lastWriter, url, ids>>

\* await cloudinary.uploader.destroy(coverImagePublicId)
DeleteDestroyCover(r) ==
    /\ req[r].kind = "delete" /\ req[r].pc = "destroyCover"
    /\ \E fail \in BOOLEAN :
        IF fail
        THEN /\ req' = Caught(r)
             /\ UNCHANGED blobs
        ELSE /\ blobs' = Destroy(blobs, req[r].coverImagePublicId, DefaultKind)
             /\ req' = [req EXCEPT
                    ![r].calls = @ \o <<Call("destroy", DefaultKind, req[r].coverImagePublicId)>>,
                    ![r].pc = "destroyFile"]
    /\ UNCHANGED <<books, tempFiles, lastWriter, url, ids>>

\* The second destroy with its failure swallowed: the handler goes on to
\* bookModel.deleteOne.
DeleteDestroyFileUnchecked(r) ==
    /\ req[r].kind = "delete" /\ req[r].pc = "destroyFile"
    /\ \E fail \in BOOLEAN :
        IF fail
        THEN /\ req' = [req EXCEPT ![r].pc = "deleteOne"]
             /\ UNCHANGED blobs
        ELSE /\ blobs' = Destroy(blobs, req[r].bookFilePublicId, "raw")
             /\ req' = [req EXCEPT
                    ![r].calls = @ \o <<Call("destroy", "raw", req[r].bookFilePublicId)>>,
                    ![r].pc = "deleteOne"]
    /\ UNCHANGED <<books, tempFiles, lastWriter, url, ids>>

\* await cloudinary.uploader.destroy(bookFilePublicId, {resource_type: "raw"})
DeleteDestroyFile(r) ==
    /\ req[r].kind = "delete" /\ req[r].pc = "destroyFile"
    /\ \E fail \in BOOLEAN :
        IF fail
        THEN /\ req' = Caught(r)
             /\ UNCHANGED blobs
        ELSE /\ blobs' = Destroy(blobs, req[r].bookFilePublicId, "raw")
             /\ req' = [req EXCEPT
                    ![r].calls = @ \o <<Call("destroy", "raw", req[r].bookFilePublicId)>>,
                    ![r].pc = "deleteOne"]
    /\ UNCHANGED <<books, tempFiles, lastWriter, url, ids>>

\* await bookModel.deleteOne({_id: bookId}); res.status(201).json({_id, message})
DeleteDeleteOne(r) ==
    /\ req[r].kind = "delete" /\ req[r].pc = "deleteOne"
    /\ \E fail \in BOOLEAN :
        IF fail
        THEN /\ req' = Caught(r)
             /\ UNCHANGED <<books, lastWriter>>
        ELSE /\ books' = [id \in DOMAIN books \ {req[r].bookId} |-> books[id]]
             /\ lastWriter' = [id \in DOMAIN lastWriter \ {req[r].bookId} |-> lastWriter[id]]
             /\ req' = Respond(r, 201, [NoBook EXCEPT !.id = req[r].bookId])
    /\ UNCHANGED <<blobs, tempFiles, url, ids>>

\* ------------------------------------------------------------------- Spec

Next ==
    \E r \in Reqs :
        \/ StartCreate(r)
        \/ CreateUploadCover(r)
        \/ CreateUploadFile(r)
        \/ CreateDbCreate(r)
        \/ CreateUnlinkCover(r)
        \/ CreateUnlinkFile(r)
        \/ StartUpdate(r)
        \/ UpdateFindOne(r)
        \/ UpdateDestroyCover(r)
        \/ UpdateUploadCover(r)
        \/ UpdateUnlinkCover(r)
        \/ UpdateDestroyFile(r)
        \/ UpdateUploadFile(r)
        \/ UpdateUnlinkFile(r)
        \/ UpdatePersist(r)
        \/ StartGet(r)
        \/ GetFindOne(r)
        \/ StartDelete(r)
        \/ DeleteFindOne(r)
        \/ DeleteDestroyCover(r)
        \/ DeleteDestroyFile(r)
        \/ DeleteDeleteOne(r)

Spec == Init /\ [][Next]_vars

\* The steps of handler invocation r after its start: each is the return or
\* the throw of the call the invocation is awaiting.
Step(r) ==
    \/ CreateUploadCover(r)
    \/ CreateUploadFile(r)
    \/ CreateDbCreate(r)
    \/ CreateUnlinkCover(r)
    \/ CreateUnlinkFile(r)
    \/ UpdateFindOne(r)
    \/ UpdateDestroyCover(r)
    \/ UpdateUploadCover(r)
    \/ UpdateUnlinkCover(r)
    \/ UpdateDestroyFile(r)
    \/ UpdateUploadFile(r)
    \/ UpdateUnlinkFile(r)
    \/ UpdatePersist(r)
    \/ GetFindOne(r)
    \/ DeleteFindOne(r)
    \/ DeleteDestroyCover(r)
    \/ DeleteDestroyFile(r)
    \/ DeleteDeleteOne(r)

\* Every awaited call settles: the promise is resolved or rejected and the
\* event loop resumes the handler.
SpecLive == Spec /\ \A r \in Reqs : WF_vars(Step(r))

\* ------------------------------------------- identifier derivation, on its own

Alphabet == {"/", ".", "a", "b"}

\* Every string of at most MaxUrlLen tokens.
Urls == UNION {[1 .. k -> Alphabet] : k \in 0 .. MaxUrlLen}

InitCodec ==
    /\ books = (1 :> InitBook)
    /\ blobs = {InitCover, InitFile}
    /\ tempFiles = {}
    /\ req = [r \in Reqs |-> IdleReq]
    /\ lastWriter = (1 :> 0)
    /\ url \in Urls
    /\ ids = <<>>

\* Both public ids of one stored URL, as updateBook and deleteBook derive them.
Derive ==
    /\ ids = <<>>
    /\ ids' = <<CoverImagePublicId(url), BookFilePublicId(url)>>
    /\ UNCHANGED <<books, blobs, tempFiles, req, lastWriter, url>>

NextCodec == Derive

SpecCodec == InitCodec /\ [][NextCodec]_vars

\* ------------------------------------- a record with URLs of any shape

\* The repository is a database of its own: here its one record holds, as
\* cover and as book file, a string that need not be a URL the remote store
\* returned.
InitStored ==
    /\ url \in Urls
    /\ books = (1 :> [InitBook EXCEPT !.coverImage = url, !.file = url])
    /\ blobs = {InitCover, InitFile}
    /\ tempFiles = {}
    /\ req = [r \in Reqs |-> IdleReq]
    /\ lastWriter = (1 :> 0)
    /\ ids = <<>>

\* One updateBook or deleteBook request on that record.
NextStored ==
    \/ StartUpdate(1)
    \/ UpdateFindOne(1)
    \/ UpdateDestroyCover(1)
    \/ UpdateUploadCover(1)
    \/ UpdateUnlinkCover(1)
    \/ UpdateDestroyFile(1)
    \/ UpdateUploadFile(1)
    \/ UpdateUnlinkFile(1)
    \/ UpdatePersist(1)
    \/ StartDelete(1)
    \/ DeleteFindOne(1)
    \/ DeleteDestroyCover(1)
    \/ DeleteDestroyFile(1)
    \/ DeleteDeleteOne(1)

SpecStored == InitStored /\ [][NextStored]_vars

\* ---------------------------------------------------------------- claims

\* What the claims say of a request.
Done(r) == req[r].pc = "done"
Alone(r) == \A q \in Reqs \ {r} : req[q].pc = "idle"
Quiescent == \A r \in Reqs : req[r].pc \in {"idle", "done"}
StagedFilesOf(r) == {f \in tempFiles : f[1] = r}

\* The identifiers as the design states them: the last two path segments, the
\* last one cut at its final dot for an image.
Segments(u) == Split(u, "/")
StripAfterFinalDot(seg) ==
    LET dots == {i \in 1 .. Len(seg) : seg[i] = "."}
    IN  IF dots = {} THEN seg
        ELSE SubSeq(seg, 1, (CHOOSE i \in dots : \A j \in dots : j <= i) - 1)
ImageIdentifier(u) ==
    LET segs == Segments(u)
    IN  segs[Len(segs) - 1] \o <<"/">> \o StripAfterFinalDot(segs[Len(segs)])
DocumentIdentifier(u) ==
    LET segs == Segments(u)
    IN  segs[Len(segs) - 1] \o <<"/">> \o segs[Len(segs)]

\* C1: once a createBook or updateBook request has completed, on whatever path,
\* none of the files staged for it is left in the upload directory.
C1_TempFilesDeleted ==
    \A r \in Reqs :
        (Done(r) /\ req[r].kind \in {"create", "update"}) => StagedFilesOf(r) = {}

\* C2: a createBook request that lacks the cover image or the book file ends
\* with 400 and has made no call to the remote store.
C2_NoStoreCallWhenFileMissing ==
    \A r \in Reqs :
        (Done(r) /\ req[r].kind = "create" /\ (~req[r].hasCover \/ ~req[r].hasFile))
            => (req[r].status = 400 /\ req[r].calls = <<>>)

\* C3: a createBook request with the cover image staged and the book file
\* missing ends with 400, and the repository holds no new document.
C3_MissingFile400NoRecord ==
    \A r \in Reqs :
        (Done(r) /\ req[r].kind = "create" /\ req[r].hasCover /\ ~req[r].hasFile)
            => (req[r].status = 400 /\ NewId(r) \notin DOMAIN books)

\* C4: when updateBook has fetched a record whose author is not the caller, it
\* answers 403 at once, having made no store call, and that step leaves the
\* repository and the remote store as they were; a request that has answered
\* does nothing more.
C4_NonOwnerUpdateForbidden ==
    [][ \A r \in Reqs :
          /\ ( /\ req[r].kind = "update" /\ req[r].pc = "findOne"
               /\ req'[r].pc # "findOne" /\ ~req'[r].fault
               /\ req'[r].bookId \in DOMAIN books
               /\ books[req'[r].bookId].author # req'[r].user )
             => ( /\ req'[r].pc = "done" /\ req'[r].status = 403
                  /\ req'[r].calls = <<>>
                  /\ books' = books /\ blobs' = blobs )
          /\ (Done(r) => req'[r] = req[r]) ]_vars

C4_Witness ==
    \E r \in Reqs :
        /\ req[r].kind = "update" /\ Done(r) /\ req[r].status = 403
        /\ req[r].user # req[r].book.author
        /\ req[r].bookId \in DOMAIN books /\ books[req[r].bookId] = req[r].book
        /\ Live(blobs, req[r].book.coverImage) /\ Live(blobs, req[r].book.file)

\* A deleteBook request that ended because one of its two destroy calls threw.
DestroyFailed(r) ==
    /\ req[r].kind = "delete" /\ Done(r) /\ req[r].fault
    /\ req[r].book # NoBook /\ Len(req[r].calls) < 2

\* C5: when a destroy call of deleteBook fails, nothing has been deleted: the
\* record is still there and so are both of its blobs.
C5_FailedDestroyDeletesNothing ==
    \A r \in Reqs :
        (DestroyFailed(r) /\ Alone(r))
            => ( /\ req[r].bookId \in DOMAIN books
                 /\ Live(blobs, req[r].book.coverImage)
                 /\ Live(blobs, req[r].book.file) )

\* C6: the step on which deleteBook answers with success ends exactly two
\* destroy calls, the cover's as an image and the book file's as raw, each with
\* the identifier of the URL the record held, and leaves no record of that id;
\* a getSingleBook fetch of that id that the repository answers afterwards
\* gives 404.
C6_SuccessfulDelete ==
    [][ \A r \in Reqs :
          /\ (req[r].kind = "delete" /\ ~Done(r) /\ req'[r].status = 201)
             => ( /\ req'[r].calls =
                       << Call("destroy", "image", ImageIdentifier(req[r].book.coverImage)),
                          Call("destroy", "raw", DocumentIdentifier(req[r].book.file)) >>
                  /\ req[r].bookId \notin DOMAIN books' )
          /\ ( /\ req[r].kind = "get" /\ ~Done(r) /\ Done(r)' /\ ~req'[r].fault
               /\ \E d \in Reqs : /\ req[d].kind = "delete" /\ req[d].status = 201
                                  /\ req[d].bookId = req'[r].bookId )
             => req'[r].status = 404 ]_vars

C6_Witness ==
    \E d, g \in Reqs :
        /\ req[d].kind = "delete" /\ req[d].status = 201 /\ Len(req[d].calls) = 2
        /\ req[d].bookId = InitBook.id /\ InitBook.id \notin DOMAIN books
        /\ ~Live(blobs, InitCover.url) /\ ~Live(blobs, InitFile.url)
        /\ req[g].kind = "get" /\ req[g].bookId = InitBook.id /\ req[g].status = 404

\* C7: whenever no request is under way, every record of the repository has
\* both references set, each to a blob the remote store holds.
C7_ReferencesLive ==
    Quiescent =>
        \A id \in DOMAIN books :
            /\ books[id].coverImage # <<>> /\ Live(blobs, books[id].coverImage)
            /\ books[id].file # <<>> /\ Live(blobs, books[id].file)

\* Two updateBook requests for the same record by its author, neither with a
\* staged file, both answered without any call having thrown, while no other
\* request updates or deletes that record.
TwoPlainUpdates(r1, r2) ==
    /\ r1 # r2
    /\ \A r \in {r1, r2} :
        /\ req[r].kind = "update" /\ Done(r) /\ ~req[r].fault
        /\ ~req[r].hasCover /\ ~req[r].hasFile
        /\ req[r].book # NoBook /\ req[r].user = req[r].book.author
    /\ req[r1].bookId = req[r2].bookId
    /\ req[r1].fields.title # req[r2].fields.title
    /\ \A q \in Reqs \ {r1, r2} :
        ~(req[q].kind \in {"update", "delete"} /\ req[q].bookId = req[r1].bookId)

\* C8: two such concurrent updates both succeed, and the record then holds
\* exactly what the one whose findOneAndUpdate came last wrote: its title,
\* genre and description, with the references and the author as they were.
C8_LastWriterWins ==
    \A r1, r2 \in Reqs :
        TwoPlainUpdates(r1, r2) =>
            LET b == req[r1].bookId
                w == lastWriter[b]
            IN  /\ req[r1].status = 200 /\ req[r1].body # NoBook
                /\ req[r2].status = 200 /\ req[r2].body # NoBook
                /\ b \in DOMAIN books
                /\ w \in {r1, r2}
                /\ books[b] = [req[w].book EXCEPT
                                   !.title = req[w].fields.title,
                                   !.genre = req[w].fields.genre,
                                   !.description = req[w].fields.description]
                /\ books[b].coverImage = req[r1].book.coverImage
                /\ books[b].file = req[r2].book.file

\* Both orders of the two writes happen: here the request that arrived first
\* wrote last.
C8_Witness ==
    /\ TwoPlainUpdates(1, 2)
    /\ req[1].book.title = InitBook.title /\ req[2].book.title = InitBook.title
    /\ lastWriter[req[1].bookId] = 1
    /\ books[req[1].bookId].title = req[1].fields.title

\* An updateBook request with a new cover image and no new book file.
CoverOnly(r) == req[r].kind = "update" /\ req[r].hasCover /\ ~req[r].hasFile

\* C9: an updateBook with a new cover image and no new book file never calls
\* the remote store for the raw kind; the only step on which it writes the
\* record is its findOneAndUpdate, which writes back the file URL it read when
\* it fetched the record and sets the cover to the URL of its own upload.
C9_CoverOnlyKeepsFile ==
    [][ \A r \in Reqs :
          (CoverOnly(r) /\ req'[r] # req[r]) =>
            /\ \A i \in 1 .. Len(req'[r].calls) : req'[r].calls[i].kind = "image"
            /\ IF req[r].pc = "persist" /\ req'[r].status = 200 /\ req'[r].body # NoBook
               THEN /\ books'[req[r].bookId].file = req[r].book.file
                    /\ books'[req[r].bookId].coverImage = ImageBlob(NewName(r), "png").url
                    /\ books'[req[r].bookId].coverImage # req[r].book.coverImage
                    /\ books'[req[r].bookId].author = req[r].book.author
               ELSE books' = books ]_vars

C9_Witness ==
    \E r \in Reqs :
        /\ CoverOnly(r) /\ Done(r) /\ req[r].status = 200
        /\ req[r].bookId = InitBook.id
        /\ books[InitBook.id].file = InitFile.url
        /\ books[InitBook.id].coverImage # InitCover.url
        /\ Live(blobs, InitFile.url) /\ ~Live(blobs, InitCover.url)

\* A URL that has a folder and a basename: at least two path segments, the
\* last two not empty.
HasFolderAndBasename(u) ==
    LET segs == Segments(u)
    IN  Len(segs) >= 2 /\ segs[Len(segs) - 1] # <<>> /\ segs[Len(segs)] # <<>>

\* C10: for every URL of at least two path segments, the image identifier is
\* the second-to-last segment, "/", and the last segment cut at its final dot,
\* and the document identifier is the second-to-last segment, "/", and the
\* last segment as it is; also when the last segment has several dots or none.
C10_IdentifierDerivation ==
    (ids # <<>> /\ HasFolderAndBasename(url))
        => ( /\ ids[1] = ImageIdentifier(url)
             /\ ids[2] = DocumentIdentifier(url) )

\* C11: an updateBook that answers 200 answers with the updated record, which
\* was in the repository when findOneAndUpdate ran: the body is a document,
\* that of the id the request named.
C11_UpdateReturnsRecord ==
    \A r \in Reqs :
        (req[r].kind = "update" /\ req[r].status = 200)
            => (req[r].body # NoBook /\ req[r].body.id = req[r].bookId)

\* No write to any record is request r's.
NeverWrote(r) == \A id \in DOMAIN lastWriter : lastWriter[id] # r

\* C12: in updateBook every upload comes right after the completed destroy of
\* the old blob of its kind, and is awaited only once that destroy has
\* returned; when a destroy throws the request ends with 500, with no upload of
\* that kind or of a later kind made and the record not written.
C12_DestroyBeforeUpload ==
    \A r \in Reqs :
        req[r].kind = "update" =>
            LET calls == req[r].calls
                destroyCover == Call("destroy", "image", ImageIdentifier(req[r].book.coverImage))
                destroyFile == Call("destroy", "raw", DocumentIdentifier(req[r].book.file))
            IN  /\ \A i \in 1 .. Len(calls) :
                      calls[i].op = "upload" =>
                          /\ i > 1
                          /\ calls[i - 1] =
                                 IF calls[i].kind = "image" THEN destroyCover ELSE destroyFile
                /\ req[r].pc = "uploadCover" => calls = <<destroyCover>>
                /\ req[r].pc = "uploadFile" =>
                       (calls # <<>> /\ calls[Len(calls)] = destroyFile)
                /\ req[r].failedAt = "destroyCover" =>
                       (req[r].status = 500 /\ calls = <<>> /\ NeverWrote(r))
                /\ req[r].failedAt = "destroyFile" =>
                       /\ req[r].status = 500 /\ NeverWrote(r)
                       /\ \A i \in 1 .. Len(calls) : calls[i].kind = "image"

C12_Witness ==
    \E r \in Reqs :
        /\ req[r].kind = "update" /\ req[r].hasCover /\ req[r].hasFile
        /\ req[r].failedAt = "destroyFile" /\ Len(req[r].calls) = 2
        /\ Live(blobs, req[r].book.file)

\* C13: a failing unlink in createBook or updateBook does not reach the
\* caller: the request that met it still ends with its success response.
C13_UnlinkFailureNotSurfaced ==
    \A r \in Reqs :
        ( /\ req[r].kind \in {"create", "update"}
          /\ req[r].failedAt \in {"unlinkCover", "unlinkFile"} )
            => req[r].status \in {200, 201}

\* C14: createBook stores its document only after the cover upload and then
\* the book file upload have returned; when an upload or bookModel.create
\* throws the request ends with 500, there is no document of it, and what it
\* had uploaded is still in the remote store.
C14_CreateAfterBothUploads ==
    \A r \in Reqs :
        req[r].kind = "create" =>
            /\ NewId(r) \in DOMAIN books => req[r].book # NoBook
            /\ req[r].book # NoBook =>
                   req[r].calls = << Call("upload", "image", "coverImage"),
                                     Call("upload", "raw", "file") >>
            /\ req[r].failedAt \in {"uploadCover", "uploadFile", "dbCreate"} =>
                   (req[r].status = 500 /\ NewId(r) \notin DOMAIN books)
            /\ req[r].failedAt = "uploadCover" => req[r].calls = <<>>
            /\ req[r].failedAt \in {"uploadFile", "dbCreate"} =>
                   ImageBlob(NewName(r), "png") \in blobs
            /\ req[r].failedAt = "dbCreate" => RawBlob(NewName(r)) \in blobs

C14_Witness ==
    \E r \in Reqs :
        /\ req[r].kind = "create" /\ req[r].failedAt = "dbCreate"
        /\ req[r].status = 500 /\ NewId(r) \notin DOMAIN books
        /\ Live(blobs, req[r].completeCoverImage) /\ Live(blobs, req[r].completeFileName)

\* C15: deleteBook awaits bookModel.deleteOne only with both destroy calls
\* returned, the cover's and then the book file's; when a destroy throws the
\* request ends with 500 and has not removed the record (it is there unless
\* another deleteBook removed it).
C15_DeleteOneAfterDestroys ==
    \A r \in Reqs :
        req[r].kind = "delete" =>
            /\ (req[r].pc = "deleteOne" \/ req[r].failedAt = "deleteOne" \/ req[r].status = 201)
                   => ( /\ Len(req[r].calls) = 2
                        /\ req[r].calls[1].op = "destroy" /\ req[r].calls[1].kind = "image"
                        /\ req[r].calls[2].op = "destroy" /\ req[r].calls[2].kind = "raw" )
            /\ req[r].failedAt \in {"destroyCover", "destroyFile"}
                   => ( /\ req[r].status = 500
                        /\ \/ req[r].bookId \in DOMAIN books
                           \/ \E q \in Reqs \ {r} :
                                  /\ req[q].kind = "delete" /\ req[q].status = 201
                                  /\ req[q].bookId = req[r].bookId )

C15_Witness ==
    \E r \in Reqs :
        /\ req[r].kind = "delete" /\ req[r].failedAt = "destroyFile"
        /\ Len(req[r].calls) = 1 /\ req[r].status = 500
        /\ req[r].bookId \in DOMAIN books /\ books[req[r].bookId] = req[r].book

\* The URL an updateBook or deleteBook request derives an identifier from and
\* has a use for: both for deleteBook, those of the staged kinds for updateBook.
UsesCoverId(r) == req[r].kind = "delete" \/ (req[r].kind = "update" /\ req[r].hasCover)
UsesFileId(r) == req[r].kind = "delete" \/ (req[r].kind = "update" /\ req[r].hasFile)

PassedOwnerCheck(q) ==
    /\ req[q].kind \in {"update", "delete"}
    /\ req[q].book # NoBook /\ ~NotOwner(req[q].book, req[q].user)

\* No other request has been let through to the record that r fetched.
NoOwnerAt(r) ==
    \A q \in Reqs \ {r} : PassedOwnerCheck(q) => req[q].bookId # req[r].bookId

\* C17: a deleteBook that has fetched a record whose author is not the caller
\* has ended with 403 and has made no store call; unless an owner's request got
\* at the same record, the record is still the one fetched and both its blobs
\* are in the remote store.
C17_NonOwnerDeleteForbidden ==
    \A r \in Reqs :
        ( /\ req[r].kind = "delete" /\ req[r].book # NoBook
          /\ req[r].user # req[r].book.author )
            => ( /\ Done(r) /\ req[r].status = 403
                 /\ req[r].calls = <<>>
                 /\ NoOwnerAt(r) =>
                        ( /\ req[r].bookId \in DOMAIN books
                          /\ books[req[r].bookId] = req[r].book
                          /\ Live(blobs, req[r].book.coverImage)
                          /\ Live(blobs, req[r].book.file) ) )

C17_Witness ==
    \E r \in Reqs :
        /\ req[r].kind = "delete" /\ Done(r) /\ req[r].status = 403
        /\ req[r].user # req[r].book.author
        /\ NoOwnerAt(r)
        /\ books[req[r].bookId] = req[r].book
        /\ Live(blobs, req[r].book.coverImage) /\ Live(blobs, req[r].book.file)

\* C18: every record in the repository has the author it was created with: the
\* initial record its initial author, a record made by a createBook that
\* request's caller.
C18_AuthorImmutable ==
    \A id \in DOMAIN books :
        IF id = InitBook.id
        THEN books[id].author = InitBook.author
        ELSE \E r \in Reqs :
                /\ id = NewId(r) /\ req[r].kind = "create"
                /\ books[id].author = req[r].user

C18_Witness ==
    \E r \in Reqs :
        /\ req[r].kind = "update" /\ Done(r) /\ req[r].status = 200
        /\ req[r].bookId \in DOMAIN books /\ lastWriter[req[r].bookId] = r
        /\ books[req[r].bookId].title # req[r].book.title
        /\ books[req[r].bookId].author = req[r].book.author

\* C19: an updateBook or deleteBook whose findOne returned no record has ended
\* with 404, has made no store call and has written no record.
C19_MissingRecordNotFound ==
    \A r \in Reqs :
        ( /\ req[r].kind \in {"update", "delete"}
          /\ req[r].pc \notin {"idle", "findOne"}
          /\ req[r].book = NoBook /\ ~req[r].fault )
            => ( /\ Done(r) /\ req[r].status = 404
                 /\ req[r].calls = <<>>
                 /\ NeverWrote(r) )

C19_Witness ==
    \E r1, r2 \in Reqs :
        /\ req[r1].kind = "update" /\ req[r1].status = 404 /\ req[r1].book = NoBook
        /\ req[r2].kind = "delete" /\ req[r2].status = 404 /\ req[r2].book = NoBook
        /\ req[r1].calls = <<>> /\ req[r2].calls = <<>>

\* Two updateBook requests by the owner on one record, both answered 200 with
\* the record, at least one of them with a staged file, and no other request
\* let through to that record.
TwoStagedUpdates(r1, r2) ==
    /\ r1 # r2
    /\ \A r \in {r1, r2} :
        /\ req[r].kind = "update" /\ Done(r) /\ req[r].status = 200
        /\ req[r].body # NoBook
        /\ PassedOwnerCheck(r)
    /\ req[r1].bookId = req[r2].bookId
    /\ \E r \in {r1, r2} : req[r].hasCover \/ req[r].hasFile
    /\ \A q \in Reqs \ {r1, r2} :
        PassedOwnerCheck(q) => req[q].bookId # req[r1].bookId

\* C20: once two such updates have both completed, the record does not hold a
\* URL whose blob one of them destroyed: both of its references are in the
\* remote store.
C20_ConcurrentUpdatesKeepLiveUrls ==
    \A r1, r2 \in Reqs :
        TwoStagedUpdates(r1, r2) =>
            ( /\ req[r1].bookId \in DOMAIN books
              /\ Live(blobs, books[req[r1].bookId].coverImage)
              /\ Live(blobs, books[req[r1].bookId].file) )

\* An invocation of createBook, updateBook or deleteBook.
Invoked(r) == req[r].kind \in {"create", "update", "delete"}

\* The outcomes invocation r has produced: responses sent and errors passed
\* to next.
Outcomes(r) == req[r].sent + req[r].nexted

\* C21: an invocation of createBook, updateBook or deleteBook never has more
\* than one outcome, has none while it is under way and exactly one when it has
\* ended; and, every awaited call settling, it does end.
C21_ExactlyOneOutcome ==
    /\ [](\A r \in Reqs :
            Invoked(r) => ( /\ Outcomes(r) <= 1
                            /\ Done(r) <=> Outcomes(r) = 1 ))
    /\ \A r \in Reqs : Invoked(r) ~> (Done(r) /\ Outcomes(r) = 1)

C21_Witness ==
    /\ \A r \in Reqs : Invoked(r) /\ Done(r) /\ Outcomes(r) = 1
    /\ \E r \in Reqs : req[r].sent = 1
    /\ \E r \in Reqs : req[r].nexted = 1 /\ req[r].fault

====
